---- MODULE Spec2Model ----
(***************************************************************************)
(* The StagingStack descriptor of infra/lib/staging-stack.ts and its       *)
(* entry point infra/bin/app.ts.                                           *)
(*                                                                         *)
(* The constructor is a straight-line program: every statement declares a  *)
(* construct or changes one that was declared before.  The model runs it   *)
(* one statement at a time (pc indexes StmtOrder) and keeps the construct  *)
(* tree in res.  An optional value (a `?:' field, a value that may be      *)
(* undefined) is a set with at most one element: {} is undefined.          *)
(*                                                                         *)
(* Calls into aws-cdk-lib are modelled by what the library does with the   *)
(* arguments the source passes: ec2.Vpc takes the first maxAzs of the      *)
(* stack's availability zones and carves the subnets out of the address    *)
(* block in declaration order; an environment-agnostic stack (account or   *)
(* region unresolved) has two availability zones.                          *)
(***************************************************************************)
EXTENDS Integers, Sequences, FiniteSets, TLC

VARIABLES
    pc,           \* index in StmtOrder of the next constructor statement; 0 before app.ts ran
    props,        \* the props argument of the constructor ({} = undefined)
    azsOffered,   \* availability zones the target account/region offers
    failed,       \* the constructor threw a validation failure
    settings,     \* the "Configurable Settings" constants ({} before line 26)
    stack,        \* the environment of cdk.Stack ({} before super())
    res,          \* construct id -> its properties
    order,        \* construct ids in declaration order
    refs,         \* construct id -> the constructs its declaring statement referenced
    envAccount,   \* process.env.CDK_DEFAULT_ACCOUNT ({} = unset)
    run,          \* number of the current execution of app.ts
    synthesized,  \* results of the finished earlier executions of app.ts
    provider      \* descriptors the provisioning engine has applied to the live provider

vars == << pc, props, azsOffered, failed, settings, stack, res, order, refs,
           envAccount, run, synthesized, provider >>

appVars == << envAccount, run, synthesized, provider >>

----------------------------------------------------------------------------
(* Bounds of the model *)

MaxMaxAzs == 3
MaxAzsOffered == 3
MaxRuns == 2

----------------------------------------------------------------------------
(* Optional values *)

Undefined == {}

Some(v) == {v}

\* x ?? d
Coalesce(x, d) == IF x = Undefined THEN d ELSE CHOOSE v \in x : TRUE

\* props?.field
Field(p, f) == IF p = Undefined THEN Undefined ELSE (CHOOSE v \in p : TRUE)[f]

Min(a, b) == IF a <= b THEN a ELSE b

RECURSIVE Pow2(_)
Pow2(n) == IF n = 0 THEN 1 ELSE 2 * Pow2(n - 1)

\* a.b.c.d as a number
Ip(a, b, c, d) == ((a * 256 + b) * 256 + c) * 256 + d

Cidr(addr, mask) == [addr |-> addr, mask |-> mask]

NetSize(mask) == Pow2(32 - mask)

MinAddress(block) == block.addr

MaxAddress(block) == block.addr + NetSize(block.mask) - 1

\* the first block of the given mask at or after ip
BlockAt(ip, mask) ==
    LET size == NetSize(mask)
    IN  Cidr(IF ip % size = 0 THEN ip ELSE ip + size - (ip % size), mask)

Inside(block, net) ==
    MinAddress(net) <= MinAddress(block) /\ MaxAddress(block) <= MaxAddress(net)

Disjoint(b1, b2) ==
    MaxAddress(b1) < MinAddress(b2) \/ MaxAddress(b2) < MinAddress(b1)

----------------------------------------------------------------------------
(* Settings: staging-stack.ts lines 26-29 *)

DefaultVpcCidr == Cidr(Ip(10, 0, 0, 0), 16)

SettingsThreeAzs(p) ==
    [ vpcCidr           |-> Coalesce(Field(p, "vpcCidr"), DefaultVpcCidr),
      publicSubnetMask  |-> Coalesce(Field(p, "publicSubnetMask"), 24),
      privateSubnetMask |-> Coalesce(Field(p, "privateSubnetMask"), 24),
      maxAzs            |-> Coalesce(Field(p, "maxAzs"), 3) ]

SettingsPrivateFromPublic(p) ==
    [ vpcCidr           |-> Coalesce(Field(p, "vpcCidr"), DefaultVpcCidr),
      publicSubnetMask  |-> Coalesce(Field(p, "publicSubnetMask"), 24),
      privateSubnetMask |-> Coalesce(Field(p, "publicSubnetMask"), 24),
      maxAzs            |-> Coalesce(Field(p, "maxAzs"), 2) ]

Settings(p) ==
    [ vpcCidr           |-> Coalesce(Field(p, "vpcCidr"), DefaultVpcCidr),
      publicSubnetMask  |-> Coalesce(Field(p, "publicSubnetMask"), 24),
      privateSubnetMask |-> Coalesce(Field(p, "privateSubnetMask"), 24),
      maxAzs            |-> Coalesce(Field(p, "maxAzs"), 2) ]

\* the env of cdk.StackProps, handed to super()
StackEnv(p) ==
    LET env == Field(p, "env")
    IN  [ account |-> Field(env, "account"), region |-> Field(env, "region") ]

----------------------------------------------------------------------------
(* The network: staging-stack.ts lines 32-48 *)

\* stack.availabilityZones: two zones for an environment-agnostic stack,
\* the zones of the account and region otherwise
AvailabilityZones(env, offered) ==
    IF env.account = Undefined \/ env.region = Undefined THEN 2 ELSE offered

SubnetRequestsOnePrivate(s, zones) ==
    [ i \in 1..(zones + 1) |->
        IF i <= zones
        THEN [ name |-> "Public",  az |-> i, cidrMask |-> s.publicSubnetMask ]
        ELSE [ name |-> "Private", az |-> 1, cidrMask |-> s.privateSubnetMask ] ]

\* the masks of the subnets in the order ec2.Vpc allocates them: every
\* subnetConfiguration entry in turn, one subnet per zone
SubnetRequests(s, zones) ==
    [ i \in 1..(2 * zones) |->
        IF i <= zones
        THEN [ name |-> "Public",  az |-> i,         cidrMask |-> s.publicSubnetMask ]
        ELSE [ name |-> "Private", az |-> i - zones, cidrMask |-> s.privateSubnetMask ] ]

\* the blocks of the first n requests, allocated one after another from the
\* start of the address block
RECURSIVE Allocate(_, _, _)
Allocate(net, reqs, n) ==
    IF n = 0 THEN << >>
    ELSE LET before == Allocate(net, reqs, n - 1)
             next   == IF n = 1 THEN MinAddress(net)
                       ELSE MaxAddress(before[n - 1].cidr) + 1
         IN  Append(before,
                    [ name |-> reqs[n].name, az |-> reqs[n].az,
                      cidr |-> BlockAt(next, reqs[n].cidrMask) ])

\* ec2.Vpc throws when a subnet exceeds the remaining space of the block
Fits(net, subnets) ==
    \A i \in 1..Len(subnets) : MaxAddress(subnets[i].cidr) <= MaxAddress(net)

NatGateways == 1

Zones(s, env, offered) == Min(s.maxAzs, AvailabilityZones(env, offered))

VpcSubnets(s, env, offered) ==
    LET reqs == SubnetRequests(s, Zones(s, env, offered))
    IN  Allocate(s.vpcCidr, reqs, Len(reqs))

SelectByName(subnets, name) == SelectSeq(subnets, LAMBDA sn : sn.name = name)

VpcProps(s, env, offered) ==
    LET subnets == VpcSubnets(s, env, offered)
        public  == SelectByName(subnets, "Public")
        private == SelectByName(subnets, "Private")
        nats    == 1..Min(NatGateways, Len(public))
    IN  [ cidr           |-> s.vpcCidr,
          zones          |-> Zones(s, env, offered),
          natGateways    |-> nats,
          publicSubnets  |-> public,
          privateSubnets |->
              [ i \in 1..Len(private) |->
                  [ name |-> private[i].name, az |-> private[i].az,
                    cidr |-> private[i].cidr,
                    \* default route of the subnet: a NAT gateway, by public subnet
                    nat  |-> IF nats = {} THEN Undefined
                             ELSE Some(((i - 1) % Cardinality(nats)) + 1) ] ] ]

----------------------------------------------------------------------------
(* The statements of the constructor, in source order *)

StmtOrderQueueFirst ==
    << "Stack", "Vpc", "DocsBucket", "OutputsBucket", "ProcessingQueue",
       "ProcessingDLQ", "Cluster", "TaskDef", "TaskRolePolicy", "ApiRepository",
       "ApiContainer", "PortMappings", "Service", "ALB", "AlbCertificate",
       "HttpsListener", "EcsTargets", "HttpRedirect", "AlbDnsName", "VpcCidr",
       "PublicSubnets", "PrivateSubnets" >>

StmtOrder ==
    << "Stack", "Vpc", "DocsBucket", "OutputsBucket", "ProcessingDLQ",
       "ProcessingQueue", "Cluster", "TaskDef", "TaskRolePolicy", "ApiRepository",
       "ApiContainer", "PortMappings", "Service", "ALB", "AlbCertificate",
       "HttpsListener", "EcsTargets", "HttpRedirect", "AlbDnsName", "VpcCidr",
       "PublicSubnets", "PrivateSubnets" >>

Done == Len(StmtOrder) + 1

\* the statement with this name is the next one to run
At(stmt) == pc \in 1..Len(StmtOrder) /\ StmtOrder[pc] = stmt /\ ~failed

\* the statement with this name has run
Ran(stmt) == \E i \in 1..Len(order) : order[i] = stmt

\* the constructs a statement names: the variables and `this' members it reads
StmtRefs(stmt) ==
    CASE stmt = "ProcessingQueue" -> { "ProcessingDLQ" }
      [] stmt = "Cluster"         -> { "Vpc" }
      [] stmt = "TaskRolePolicy"  -> { "TaskDef" }
      [] stmt = "ApiContainer"    -> { "TaskDef", "ApiRepository", "DocsBucket",
                                       "OutputsBucket", "ProcessingQueue", "Stack" }
      [] stmt = "PortMappings"    -> { "ApiContainer" }
      [] stmt = "Service"         -> { "Cluster", "TaskDef" }
      [] stmt = "ALB"             -> { "Vpc" }
      [] stmt = "HttpsListener"   -> { "ALB", "AlbCertificate" }
      [] stmt = "EcsTargets"      -> { "HttpsListener", "Service" }
      [] stmt = "HttpRedirect"    -> { "ALB" }
      [] stmt = "AlbDnsName"      -> { "ALB" }
      [] stmt = "VpcCidr"         -> { "Vpc" }
      [] stmt = "PublicSubnets"   -> { "Vpc" }
      [] stmt = "PrivateSubnets"  -> { "Vpc" }
      [] OTHER                    -> { }

\* the statement ran: it is recorded with what it referenced
Step(stmt) ==
    /\ pc' = pc + 1
    /\ order' = Append(order, stmt)
    /\ refs' = refs @@ (stmt :> StmtRefs(stmt))

\* a statement that declares construct id with properties rec
Declare(id, rec) ==
    /\ Step(id)
    /\ res' = res @@ (id :> rec)

TheSettings == CHOOSE s \in settings : TRUE

TheStack == CHOOSE e \in stack : TRUE

----------------------------------------------------------------------------
(* Lines 23-29: super(scope, id, props) and the configurable settings *)

Super ==
    /\ At("Stack")
    /\ stack' = Some(StackEnv(props))
    /\ settings' = Some(Settings(props))
    /\ Step("Stack")
    /\ UNCHANGED << props, azsOffered, failed, res, appVars >>

(* Lines 32-48: the network; ec2.Vpc throws when the subnets do not fit *)

DeclareVpc ==
    /\ At("Vpc")
    /\ IF Fits(TheSettings.vpcCidr, VpcSubnets(TheSettings, TheStack, azsOffered))
       THEN /\ Declare("Vpc", VpcProps(TheSettings, TheStack, azsOffered))
            /\ UNCHANGED failed
       ELSE /\ failed' = TRUE
            /\ UNCHANGED << pc, order, refs, res >>
    /\ UNCHANGED << props, azsOffered, settings, stack, appVars >>

(* Lines 51-61: the buckets *)

DocsBucketProps ==
    [ bucketName |-> "lizdms-staging-docs", removalPolicy |-> "DESTROY",
      autoDeleteObjects |-> TRUE ]

OutputsBucketProps ==
    [ bucketName |-> "lizdms-staging-outputs", removalPolicy |-> "DESTROY",
      autoDeleteObjects |-> TRUE ]

DeclareDocsBucket ==
    /\ At("DocsBucket")
    /\ Declare("DocsBucket", DocsBucketProps)
    /\ UNCHANGED << props, azsOffered, failed, settings, stack, appVars >>

DeclareOutputsBucket ==
    /\ At("OutputsBucket")
    /\ Declare("OutputsBucket", OutputsBucketProps)
    /\ UNCHANGED << props, azsOffered, failed, settings, stack, appVars >>

(* Lines 64-74: the dead-letter queue and the processing queue *)

MaxReceiveCount == 3

ProcessingDLQProps ==
    [ queueName |-> "lizdms-staging-processing-dlq", deadLetterQueue |-> Undefined ]

ProcessingQueuePropsFromSettings(s) ==
    [ queueName |-> "lizdms-staging-processing",
      deadLetterQueue |-> Some([ queue |-> "ProcessingDLQ",
                                 maxReceiveCount |-> s.maxAzs + 1 ]) ]

ProcessingQueueProps(s) ==
    [ queueName |-> "lizdms-staging-processing",
      deadLetterQueue |-> Some([ queue |-> "ProcessingDLQ",
                                 maxReceiveCount |-> MaxReceiveCount ]) ]

DeclareProcessingDLQ ==
    /\ At("ProcessingDLQ")
    /\ Declare("ProcessingDLQ", ProcessingDLQProps)
    /\ UNCHANGED << props, azsOffered, failed, settings, stack, appVars >>

DeclareProcessingQueue ==
    /\ At("ProcessingQueue")
    /\ Declare("ProcessingQueue", ProcessingQueueProps(TheSettings))
    /\ UNCHANGED << props, azsOffered, failed, settings, stack, appVars >>

(* Lines 77-80: the cluster *)

DeclareCluster ==
    /\ At("Cluster")
    /\ Declare("Cluster", [ vpc |-> "Vpc", clusterName |-> "lizdms-staging-cluster" ])
    /\ UNCHANGED << props, azsOffered, failed, settings, stack, appVars >>

(* Lines 83-93: the task definition and the statement of its task role *)

DeclareTaskDef ==
    /\ At("TaskDef")
    /\ Declare("TaskDef",
               [ cpu |-> 256, memoryLimitMiB |-> 512,
                 taskRolePolicy |-> {}, executionRolePolicy |-> {},
                 containers |-> << >> ])
    /\ UNCHANGED << props, azsOffered, failed, settings, stack, appVars >>

TaskRoleStatementWithDelete ==
    [ actions   |-> { "s3:GetObject", "s3:PutObject", "s3:DeleteObject", "sqs:SendMessage" },
      resources |-> { "*" } ]

TaskRoleStatement ==
    [ actions   |-> { "s3:GetObject", "s3:PutObject", "sqs:SendMessage" },
      resources |-> { "*" } ]

AddToTaskRolePolicy ==
    /\ At("TaskRolePolicy")
    /\ Step("TaskRolePolicy")
    /\ res' = [ res EXCEPT !["TaskDef"].taskRolePolicy = @ \cup { TaskRoleStatement } ]
    /\ UNCHANGED << props, azsOffered, failed, settings, stack, appVars >>

(* Lines 96-100: the imported repository *)

DeclareApiRepository ==
    /\ At("ApiRepository")
    /\ Declare("ApiRepository", [ repositoryName |-> "lizdms-api", imported |-> TRUE ])
    /\ UNCHANGED << props, azsOffered, failed, settings, stack, appVars >>

(* Lines 103-119: the container and its port mapping.  An image from a    *)
(* repository and the awsLogs driver grant their rights to the execution   *)
(* role of the task definition, not to the task role.                      *)

ExecutionRoleGrants ==
    { [ actions   |-> { "ecr:BatchCheckLayerAvailability", "ecr:GetDownloadUrlForLayer",
                        "ecr:BatchGetImage", "ecr:GetAuthorizationToken" },
        resources |-> { "ApiRepository", "*" } ],
      [ actions   |-> { "logs:CreateLogStream", "logs:PutLogEvents" },
        resources |-> { "LogGroup" } ] }

ApiContainerProps ==
    [ taskDefinition |-> "TaskDef",
      image          |-> "ApiRepository",
      logging        |-> [ streamPrefix |-> "lizdms", logRetention |-> "ONE_WEEK" ],
      environment    |-> [ DOCS_BUCKET    |-> res["DocsBucket"].bucketName,
                           OUTPUTS_BUCKET |-> res["OutputsBucket"].bucketName,
                           QUEUE_URL      |-> << "ProcessingQueue", "queueUrl" >>,
                           AWS_REGION     |-> TheStack.region ],
      portMappings   |-> << >> ]

AddContainer ==
    /\ At("ApiContainer")
    /\ Step("ApiContainer")
    /\ res' = [ res EXCEPT !["TaskDef"].containers = Append(@, "ApiContainer"),
                           !["TaskDef"].executionRolePolicy = @ \cup ExecutionRoleGrants ]
              @@ ("ApiContainer" :> ApiContainerProps)
    /\ UNCHANGED << props, azsOffered, failed, settings, stack, appVars >>

ContainerPort == 3000

AddPortMappings ==
    /\ At("PortMappings")
    /\ Step("PortMappings")
    /\ res' = [ res EXCEPT !["ApiContainer"].portMappings =
                               Append(@, [ containerPort |-> ContainerPort ]) ]
    /\ UNCHANGED << props, azsOffered, failed, settings, stack, appVars >>

(* Lines 122-127: the service.  Without vpcSubnets a Fargate service takes *)
(* the public subnets when assignPublicIp is set and otherwise the first   *)
(* tier there is of private, public.                                       *)

ServiceSubnets(network, assignPublicIp) ==
    IF assignPublicIp \/ Len(network.privateSubnets) = 0
    THEN network.publicSubnets
    ELSE network.privateSubnets

ServicePropsPublicIp ==
    [ cluster |-> "Cluster", taskDefinition |-> "TaskDef", desiredCount |-> 1,
      assignPublicIp |-> TRUE, loadBalancers |-> {} ]

ServiceProps ==
    [ cluster |-> "Cluster", taskDefinition |-> "TaskDef", desiredCount |-> 1,
      assignPublicIp |-> FALSE, loadBalancers |-> {} ]

DeclareService ==
    /\ At("Service")
    /\ LET p == ServiceProps
       IN  Declare("Service",
                   [ cluster |-> p.cluster, taskDefinition |-> p.taskDefinition,
                     desiredCount |-> p.desiredCount,
                     assignPublicIp |-> p.assignPublicIp,
                     loadBalancers |-> p.loadBalancers,
                     subnets |-> ServiceSubnets(res[res[p.cluster].vpc], p.assignPublicIp) ])
    /\ UNCHANGED << props, azsOffered, failed, settings, stack, appVars >>

(* Lines 130-140: the load balancer and the imported certificate *)

DeclareALB ==
    /\ At("ALB")
    /\ Declare("ALB", [ vpc |-> "Vpc", internetFacing |-> TRUE,
                        subnets |-> res["Vpc"].publicSubnets ])
    /\ UNCHANGED << props, azsOffered, failed, settings, stack, appVars >>

CertificateArn ==
    "arn:aws:acm:us-east-2:502826260777:certificate/38022fb5-d579-401b-8b62-90c47bb6c2af"

DeclareAlbCertificate ==
    /\ At("AlbCertificate")
    /\ Declare("AlbCertificate", [ certificateArn |-> CertificateArn, imported |-> TRUE ])
    /\ UNCHANGED << props, azsOffered, failed, settings, stack, appVars >>

(* Lines 143-167: the listeners.  A listener without a protocol is HTTPS   *)
(* when it has certificates and otherwise what its port says.              *)

ListenerProtocol(port, certificates) ==
    IF certificates # {} \/ port \in { 443, 8443 } THEN "HTTPS" ELSE "HTTP"

Listener(p) ==
    [ kind |-> "Listener", loadBalancer |-> "ALB", port |-> p.port,
      protocol |-> ListenerProtocol(p.port, p.certificates),
      certificates |-> p.certificates, open |-> p.open,
      defaultActions |-> p.defaultActions ]

HttpsListenerProps ==
    [ port |-> 443, certificates |-> { "AlbCertificate" }, open |-> TRUE,
      defaultActions |-> << >> ]

AddHttpsListener ==
    /\ At("HttpsListener")
    /\ Declare("HttpsListener", Listener(HttpsListenerProps))
    /\ UNCHANGED << props, azsOffered, failed, settings, stack, appVars >>

EcsTargetsProps ==
    [ port |-> 80, targets |-> { "Service" },
      healthCheck |-> [ path |-> "/", healthyHttpCodes |-> "200" ] ]

\* the service attaches itself to the target group with its default
\* container (the first one of the task definition) and that container's
\* first port mapping
LoadBalancerTarget(service, group) ==
    LET container == res[res[service].taskDefinition].containers[1]
    IN  [ targetGroup   |-> group,
          containerName |-> container,
          containerPort |-> res[container].portMappings[1].containerPort ]

AddTargets ==
    /\ At("EcsTargets")
    /\ Step("EcsTargets")
    /\ LET p == EcsTargetsProps
       IN  res' = [ res EXCEPT
                      !["HttpsListener"].defaultActions =
                          Append(@, [ type |-> "forward", targetGroup |-> "EcsTargets" ]),
                      !["Service"].loadBalancers =
                          @ \cup { LoadBalancerTarget("Service", "EcsTargets") } ]
                  @@ ("EcsTargets" :>
                        [ kind |-> "TargetGroup", port |-> p.port,
                          protocol |-> ListenerProtocol(p.port, {}),
                          targets |-> p.targets, healthCheck |-> p.healthCheck ])
    /\ UNCHANGED << props, azsOffered, failed, settings, stack, appVars >>

HttpRedirectPropsForward ==
    [ port |-> 80, certificates |-> {}, open |-> TRUE,
      defaultActions |-> << [ type |-> "forward", targetGroup |-> "EcsTargets" ] >> ]

HttpRedirectProps ==
    [ port |-> 80, certificates |-> {}, open |-> TRUE,
      defaultActions |-> << [ type |-> "redirect", protocol |-> "HTTPS",
                              port |-> "443", permanent |-> TRUE ] >> ]

AddHttpRedirect ==
    /\ At("HttpRedirect")
    /\ Declare("HttpRedirect", Listener(HttpRedirectProps))
    /\ UNCHANGED << props, azsOffered, failed, settings, stack, appVars >>

(* Lines 170-184: the outputs *)

SubnetIds(subnets) == [ i \in 1..Len(subnets) |-> << subnets[i].name, subnets[i].az >> ]

OutputAlbDnsName ==
    /\ At("AlbDnsName")
    /\ Declare("AlbDnsName", [ value |-> << "ALB", "loadBalancerDnsName" >> ])
    /\ UNCHANGED << props, azsOffered, failed, settings, stack, appVars >>

OutputVpcCidr ==
    /\ At("VpcCidr")
    /\ Declare("VpcCidr", [ value |-> res["Vpc"].cidr ])
    /\ UNCHANGED << props, azsOffered, failed, settings, stack, appVars >>

OutputPublicSubnets ==
    /\ At("PublicSubnets")
    /\ Declare("PublicSubnets", [ value |-> SubnetIds(res["Vpc"].publicSubnets) ])
    /\ UNCHANGED << props, azsOffered, failed, settings, stack, appVars >>

OutputPrivateSubnets ==
    /\ At("PrivateSubnets")
    /\ Declare("PrivateSubnets", [ value |-> SubnetIds(res["Vpc"].privateSubnets) ])
    /\ UNCHANGED << props, azsOffered, failed, settings, stack, appVars >>

\* one statement of the constructor
Construct ==
    \/ Super
    \/ DeclareVpc
    \/ DeclareDocsBucket
    \/ DeclareOutputsBucket
    \/ DeclareProcessingDLQ
    \/ DeclareProcessingQueue
    \/ DeclareCluster
    \/ DeclareTaskDef
    \/ AddToTaskRolePolicy
    \/ DeclareApiRepository
    \/ AddContainer
    \/ AddPortMappings
    \/ DeclareService
    \/ DeclareALB
    \/ DeclareAlbCertificate
    \/ AddHttpsListener
    \/ AddTargets
    \/ AddHttpRedirect
    \/ OutputAlbDnsName
    \/ OutputVpcCidr
    \/ OutputPublicSubnets
    \/ OutputPrivateSubnets

----------------------------------------------------------------------------
(* The constructor on the configurations a caller may pass *)

CidrInputs ==
    { Cidr(Ip(10, 0, 0, 0), 16), Cidr(Ip(10, 1, 0, 0), 24), Cidr(Ip(10, 2, 0, 0), 22) }

MaskInputs == { 24, 26 }

Optional(S) == { Undefined } \cup { Some(v) : v \in S }

EnvInputs ==
    [ account : Optional({ "502826260777" }), region : Optional({ "us-east-2" }) ]

PropsInputs ==
    Optional([ env               : Optional(EnvInputs),
               vpcCidr           : Optional(CidrInputs),
               publicSubnetMask  : Optional(MaskInputs),
               privateSubnetMask : Optional(MaskInputs),
               maxAzs            : Optional(1..MaxMaxAzs) ])

\* every region offers at least two availability zones
OfferedInputs == 2..MaxAzsOffered

Blank ==
    /\ failed = FALSE
    /\ settings = Undefined
    /\ stack = Undefined
    /\ res = << >>
    /\ order = << >>
    /\ refs = << >>

Init ==
    /\ pc = 1
    /\ props \in PropsInputs
    /\ azsOffered \in OfferedInputs
    /\ Blank
    /\ envAccount = Undefined
    /\ run = 1
    /\ synthesized = << >>
    /\ provider = << >>

Next == Construct

Spec == Init /\ [][Next]_vars

----------------------------------------------------------------------------
(* bin/app.ts: each execution builds one StagingStack *)

Graph == [ stack |-> stack, res |-> res ]

AccountInputs == { "502826260777", "111111111111" }

AppPropsFixedAccount(account) ==
    Some([ env               |-> Some([ account |-> Some("502826260777"),
                                        region  |-> Some("us-east-2") ]),
           vpcCidr           |-> Undefined,
           publicSubnetMask  |-> Undefined,
           privateSubnetMask |-> Undefined,
           maxAzs            |-> Undefined ])

\* app.ts lines 7-12: the props of the stack, given process.env.CDK_DEFAULT_ACCOUNT
AppProps(account) ==
    Some([ env               |-> Some([ account |-> account,
                                        region  |-> Some("us-east-2") ]),
           vpcCidr           |-> Undefined,
           publicSubnetMask  |-> Undefined,
           privateSubnetMask |-> Undefined,
           maxAzs            |-> Undefined ])

AppMain ==
    /\ pc = 0
    /\ props' = AppProps(envAccount)
    /\ pc' = 1
    /\ UNCHANGED << azsOffered, failed, settings, stack, res, order, refs, appVars >>

\* app.ts is executed again, in an environment that may have changed
Rerun ==
    /\ pc = Done \/ failed
    /\ run < MaxRuns
    /\ synthesized' = Append(synthesized,
                             [ envAccount |-> envAccount, azsOffered |-> azsOffered,
                               failed |-> failed, graph |-> Graph ])
    /\ run' = run + 1
    /\ envAccount' \in Optional(AccountInputs)
    /\ azsOffered' \in OfferedInputs
    /\ pc' = 0
    /\ props' = Undefined
    /\ failed' = FALSE
    /\ settings' = Undefined
    /\ stack' = Undefined
    /\ res' = << >>
    /\ order' = << >>
    /\ refs' = << >>
    /\ UNCHANGED provider

\* the provisioning engine applies the finished descriptor, once per execution
Deploy ==
    /\ pc = Done
    /\ Len(provider) < run
    /\ provider' = Append(provider, [ run |-> run, graph |-> Graph ])
    /\ UNCHANGED << pc, props, azsOffered, failed, settings, stack, res, order, refs,
                    envAccount, run, synthesized >>

InitApp ==
    /\ pc = 0
    /\ props = Undefined
    /\ azsOffered \in OfferedInputs
    /\ Blank
    /\ envAccount \in Optional(AccountInputs)
    /\ run = 1
    /\ synthesized = << >>
    /\ provider = << >>

NextApp == AppMain \/ Construct \/ Rerun \/ Deploy

SpecApp == InitApp /\ [][NextApp]_vars

----------------------------------------------------------------------------
(* Properties *)

Supplied(f) == Field(props, f) # Undefined

FourOmitted ==
    ~Supplied("vpcCidr") /\ ~Supplied("publicSubnetMask")
        /\ ~Supplied("privateSubnetMask") /\ ~Supplied("maxAzs")

Agnostic == TheStack.account = Undefined \/ TheStack.region = Undefined

\* the zones the stack can use in its environment
Available == IF Agnostic THEN 2 ELSE azsOffered

Range(seq) == { seq[i] : i \in 1..Len(seq) }

Listeners ==
    { id \in DOMAIN res : "kind" \in DOMAIN res[id] /\ res[id].kind = "Listener" }

ListenersOf(protocol) == { id \in Listeners : res[id].protocol = protocol }

RoleActions(policy) == UNION { st.actions : st \in policy }

\* where a message of queue q goes once it was received more often than
\* the threshold of q allows
RedriveTarget(q) ==
    IF res[q].deadLetterQueue = Undefined THEN q
    ELSE (CHOOSE b \in res[q].deadLetterQueue : TRUE).queue

(* C1, as stated: whenever the network was built, the number of public     *)
(* subnets and the number of private subnets both equal the configured     *)
(* maxAzs, whatever the environment offers.                                *)
C1_CountIsMaxAzs ==
    Ran("Vpc") =>
        /\ Len(res["Vpc"].publicSubnets) = TheSettings.maxAzs
        /\ Len(res["Vpc"].privateSubnets) = TheSettings.maxAzs

(* C1, amended: whenever the network was built, the number of public       *)
(* subnets equals the number of private subnets, and both equal the        *)
(* smaller of maxAzs and the number of zones the stack can use (two for an *)
(* environment-agnostic stack, else what the account and region offer).    *)
C1_CountIsMinOfMaxAzsAndAvailable ==
    Ran("Vpc") =>
        /\ Len(res["Vpc"].publicSubnets) = Len(res["Vpc"].privateSubnets)
        /\ Len(res["Vpc"].publicSubnets) = Min(TheSettings.maxAzs, Available)
        /\ (TheSettings.maxAzs <= Available
               => Len(res["Vpc"].privateSubnets) = TheSettings.maxAzs)

C1_Witness ==
    /\ Ran("Vpc")
    /\ TheSettings.maxAzs = 3
    /\ Available = 2
    /\ Len(res["Vpc"].publicSubnets) = 2
    /\ Len(res["Vpc"].privateSubnets) = 2

(* C2: with none of vpcCidr, publicSubnetMask, privateSubnetMask, maxAzs   *)
(* supplied the constructor does not fail, the network has the block       *)
(* 10.0.0.0/16 and two zones, and every zone has exactly one /24 public    *)
(* and one /24 private subnet: four subnets, disjoint and inside the /16.  *)
C2_DefaultNetwork ==
    FourOmitted =>
        /\ ~failed
        /\ Ran("Vpc") =>
             LET v   == res["Vpc"]
                 all == v.publicSubnets \o v.privateSubnets
             IN  /\ v.cidr = Cidr(Ip(10, 0, 0, 0), 16)
                 /\ v.zones = 2
                 /\ Len(all) = 4
                 /\ \A z \in 1..2 :
                       /\ Cardinality({ i \in 1..Len(v.publicSubnets) :
                                          v.publicSubnets[i].az = z }) = 1
                       /\ Cardinality({ i \in 1..Len(v.privateSubnets) :
                                          v.privateSubnets[i].az = z }) = 1
                 /\ \A i \in 1..Len(all) :
                       /\ all[i].cidr.mask = 24
                       /\ Inside(all[i].cidr, v.cidr)
                       /\ \A j \in 1..Len(all) :
                             i # j => Disjoint(all[i].cidr, all[j].cidr)

C2_Witness ==
    /\ props = AppProps(Undefined)
    /\ pc = Done
    /\ Len(res["Vpc"].publicSubnets) = 2
    /\ res["Vpc"].privateSubnets[2].cidr = Cidr(Ip(10, 0, 3, 0), 24)

(* C3, as stated: whichever fields are omitted, construction never ends in *)
(* a validation failure, every omitted field has its default and every     *)
(* supplied field is used unchanged.                                       *)
C3_NeverFails ==
    /\ ~failed
    /\ settings # Undefined =>
         /\ TheSettings.vpcCidr = Coalesce(Field(props, "vpcCidr"), Cidr(Ip(10, 0, 0, 0), 16))
         /\ TheSettings.publicSubnetMask = Coalesce(Field(props, "publicSubnetMask"), 24)
         /\ TheSettings.privateSubnetMask = Coalesce(Field(props, "privateSubnetMask"), 24)
         /\ TheSettings.maxAzs = Coalesce(Field(props, "maxAzs"), 2)

(* C3, amended: every omitted field has its default (10.0.0.0/16, 24, 24,  *)
(* 2) and every supplied field is used unchanged, independently of the     *)
(* other fields; construction never fails when all four are omitted.  It   *)
(* can fail when a supplied field does not go together with the defaults   *)
(* of the omitted ones, and then it fails at the network, before any other *)
(* resource is declared.                                                   *)
C3_DefaultsSubstitute ==
    /\ settings # Undefined =>
         /\ TheSettings.vpcCidr =
              (IF Supplied("vpcCidr") THEN CHOOSE v \in Field(props, "vpcCidr") : TRUE
               ELSE Cidr(Ip(10, 0, 0, 0), 16))
         /\ TheSettings.publicSubnetMask =
              (IF Supplied("publicSubnetMask")
               THEN CHOOSE v \in Field(props, "publicSubnetMask") : TRUE ELSE 24)
         /\ TheSettings.privateSubnetMask =
              (IF Supplied("privateSubnetMask")
               THEN CHOOSE v \in Field(props, "privateSubnetMask") : TRUE ELSE 24)
         /\ TheSettings.maxAzs =
              (IF Supplied("maxAzs") THEN CHOOSE v \in Field(props, "maxAzs") : TRUE
               ELSE 2)
    /\ failed =>
         /\ ~FourOmitted
         /\ order = << "Stack" >>
         /\ res = << >>

C3_Witness ==
    /\ pc = Done
    /\ Supplied("privateSubnetMask") /\ TheSettings.privateSubnetMask = 26
    /\ ~Supplied("publicSubnetMask") /\ TheSettings.publicSubnetMask = 24
    /\ ~Supplied("vpcCidr") /\ ~Supplied("maxAzs")
    /\ res["Vpc"].privateSubnets[1].cidr.mask = 26
    /\ res["Vpc"].publicSubnets[1].cidr.mask = 24

(* C4: once the constructor has finished, the load balancer has exactly    *)
(* one HTTPS listener, on port 443 with the certificate, and exactly one   *)
(* HTTP listener, on port 80, whose only action is a permanent redirect to *)
(* HTTPS on port 443; at no time does an HTTP listener forward.            *)
C4_Listeners ==
    /\ \A id \in ListenersOf("HTTP") :
          \A i \in 1..Len(res[id].defaultActions) :
              res[id].defaultActions[i].type # "forward"
    /\ pc = Done =>
         /\ Cardinality(Listeners) = 2
         /\ \A id \in Listeners : res[id].loadBalancer = "ALB"
         /\ Cardinality(ListenersOf("HTTPS")) = 1
         /\ Cardinality(ListenersOf("HTTP")) = 1
         /\ \A id \in ListenersOf("HTTPS") :
               /\ res[id].port = 443
               /\ res[id].certificates = { "AlbCertificate" }
               /\ res["AlbCertificate"].certificateArn = CertificateArn
         /\ \A id \in ListenersOf("HTTP") :
               /\ res[id].port = 80
               /\ res[id].defaultActions =
                     << [ type |-> "redirect", protocol |-> "HTTPS",
                          port |-> "443", permanent |-> TRUE ] >>

C4_Witness ==
    /\ pc = Done
    /\ ListenersOf("HTTPS") = { "HttpsListener" }
    /\ ListenersOf("HTTP") = { "HttpRedirect" }
    /\ res["HttpsListener"].defaultActions # << >>

(* C5: from the statement that adds it on, the policy of the task role     *)
(* grants exactly s3:GetObject, s3:PutObject and sqs:SendMessage; before   *)
(* it grants nothing, and no later statement adds an action to it.         *)
C5_TaskRoleActions ==
    "TaskDef" \in DOMAIN res =>
        RoleActions(res["TaskDef"].taskRolePolicy) =
            (IF Ran("TaskRolePolicy")
             THEN { "s3:GetObject", "s3:PutObject", "sqs:SendMessage" }
             ELSE { })

C5_Witness ==
    /\ pc = Done
    /\ Ran("ApiContainer") /\ Ran("Service") /\ Ran("EcsTargets")
    /\ RoleActions(res["TaskDef"].executionRolePolicy) # { }
    /\ Cardinality(RoleActions(res["TaskDef"].taskRolePolicy)) = 3

(* C6: for every configuration the processing queue is bound to exactly    *)
(* one dead-letter queue, ProcessingDLQ, with the threshold 3, a positive  *)
(* integer; the dead-letter queue has no binding of its own, so what moves *)
(* there moves no further.                                                 *)
C6_DeadLetterBinding ==
    /\ Ran("ProcessingDLQ") => res["ProcessingDLQ"].deadLetterQueue = Undefined
    /\ Ran("ProcessingQueue") =>
         /\ Cardinality(res["ProcessingQueue"].deadLetterQueue) = 1
         /\ \A b \in res["ProcessingQueue"].deadLetterQueue :
               /\ b.queue = "ProcessingDLQ"
               /\ b.maxReceiveCount \in Nat \ { 0 }
               /\ b.maxReceiveCount = 3
         /\ RedriveTarget("ProcessingQueue") = "ProcessingDLQ"
         /\ RedriveTarget(RedriveTarget("ProcessingQueue")) = "ProcessingDLQ"

C6_Witness ==
    /\ pc = Done
    /\ Supplied("maxAzs") /\ TheSettings.maxAzs = 1
    /\ Supplied("vpcCidr") /\ Supplied("publicSubnetMask")
    /\ RedriveTarget("ProcessingQueue") = "ProcessingDLQ"

C8_PrivatePlacementSingleNat ==
    /\ Ran("Vpc") =>
         /\ Cardinality(res["Vpc"].natGateways) = 1
         /\ \A i \in 1..Len(res["Vpc"].privateSubnets) :
               res["Vpc"].privateSubnets[i].nat = res["Vpc"].natGateways
    /\ Ran("Service") =>
         /\ res["Service"].assignPublicIp = FALSE
         /\ res["Service"].subnets = res["Vpc"].privateSubnets
         /\ Len(res["Service"].subnets) >= 1
         /\ \A i \in 1..Len(res["Service"].subnets) :
               /\ res["Service"].subnets[i].name = "Private"
               /\ \A j \in 1..Len(res["Vpc"].publicSubnets) :
                     Disjoint(res["Service"].subnets[i].cidr,
                              res["Vpc"].publicSubnets[j].cidr)

C8_Witness ==
    /\ Ran("Service")
    /\ res["Vpc"].zones = 3
    /\ Len(res["Service"].subnets) = 3
    /\ Cardinality(res["Vpc"].natGateways) = 1

(* C9, as stated: the graph a finished execution of app.ts builds is the   *)
(* graph every earlier finished execution built, whatever                  *)
(* CDK_DEFAULT_ACCOUNT was.                                                *)
C9_SameGraphEveryRun ==
    pc = Done =>
        \A i \in 1..Len(synthesized) :
            ~synthesized[i].failed => synthesized[i].graph = Graph

(* C9, amended: the stack app.ts builds has the account CDK_DEFAULT_ACCOUNT *)
(* names (none when it is unset) and the region us-east-2; two executions  *)
(* with the same CDK_DEFAULT_ACCOUNT in the same environment build the     *)
(* same graph; and the live provider holds only what the engine applied,   *)
(* each time the graph of a finished execution: construction does not      *)
(* touch it.                                                               *)
C9_GraphFollowsAccount ==
    /\ stack # Undefined =>
         /\ TheStack.account = envAccount
         /\ TheStack.region = Some("us-east-2")
    /\ pc = Done =>
         \A i \in 1..Len(synthesized) :
             ( /\ synthesized[i].envAccount = envAccount
               /\ synthesized[i].azsOffered = azsOffered )
                 => synthesized[i].graph = Graph
    /\ \A k \in 1..Len(provider) :
         /\ provider[k].run <= run
         /\ provider[k].run = run => pc = Done /\ provider[k].graph = Graph
         /\ provider[k].run < run =>
               /\ ~synthesized[provider[k].run].failed
               /\ provider[k].graph = synthesized[provider[k].run].graph

C9_Witness ==
    /\ run = 2
    /\ pc = Done
    /\ synthesized[1].envAccount = envAccount
    /\ envAccount # Undefined
    /\ synthesized[1].graph = Graph
    /\ Len(provider) = 2

(* C10: every statement of the constructor references only constructs     *)
(* that earlier statements declared, and no construct is declared twice:   *)
(* the references follow the declaration order, so they form no cycle.     *)
C10_DependencyOrder ==
    /\ DOMAIN refs = Range(order)
    /\ \A i \in 1..Len(order) :
          /\ refs[order[i]] \subseteq { order[j] : j \in 1..(i - 1) }
          /\ \A j \in 1..Len(order) : i # j => order[i] # order[j]
    /\ DOMAIN res \subseteq Range(order)

C10_Witness ==
    /\ pc = Done
    /\ refs["EcsTargets"] = { "HttpsListener", "Service" }
    /\ refs["ProcessingQueue"] = { "ProcessingDLQ" }
    /\ Len(order) = Len(StmtOrder)

====
